---- MODULE Spec2Model ----
(***************************************************************************)
(* State-machine model of the ReAct orchestration core of                  *)
(* DataAnalyticsAgent (src/scr/agent.py) together with ConversationMemory  *)
(* (src/scr/memory.py), SafeCodeExecutor.update_datasets                   *)
(* (src/scr/executor.py) and the tool handlers (src/scr/tools).            *)
(*                                                                         *)
(* run() is split at the points where it consumes an external input: the   *)
(* text (or exception) produced by one llm.generate_content call, and the  *)
(* outcome of one tool handler.  Texts are sequences of word tokens, so    *)
(* that the substring tests of the retry classifier are computed.          *)
(***************************************************************************)
EXTENDS Integers, Sequences, FiniteSets, TLC

(* ------------------------------ bounds --------------------------------- *)
MaxIterations == 2      \* largest max_iterations given to the constructor
MaxRetries == 2         \* largest max_retries given to the constructor
MaxBackoffRetries == 4  \* largest max_retries of the one-iteration agents
MaxRuns == 3            \* calls of run() made on one agent
MaxDispatches == 2      \* direct calls of _execute_tool made on one agent
MaxCapacity == 2        \* largest max_turns of a ConversationMemory used alone
MaxLastN == 3           \* largest last_n asked of get_recent_context

(* ------------------------- program constants --------------------------- *)
MaxTurns == 50          \* ConversationMemory(max_turns=50)
RetryDelay == 2         \* retry_delay default
ContentPrefix == 200    \* content[:200] in the parse-failure messages
ResultPrefix == 300     \* turn['result'][:300] in get_recent_context

(* ------------------------------ helpers -------------------------------- *)
Min(a, b) == IF a < b THEN a ELSE b

Take(s, n) == SubSeq(s, 1, Min(n, Len(s)))

RECURSIVE Pow2(_)
Pow2(k) == IF k = 0 THEN 1 ELSE 2 * Pow2(k - 1)

(* str.lower() on one token *)
Lower(w) ==
    CASE w = "Quota" -> "quota"
      [] w = "RATE" -> "rate"
      [] w = "Limit" -> "limit"
      [] w = "LLM" -> "llm"
      [] w = "Failed" -> "failed"
      [] w = "Invalid" -> "invalid"
      [] w = "JSON:" -> "json:"
      [] w = "Missing" -> "missing"
      [] w = "TypeError" -> "typeerror"
      [] OTHER -> w

LowerMsg(m) == [i \in 1..Len(m) |-> Lower(m[i])]

(* the exception messages and response texts the model is made to         *)
(* produce, as sequences of words                                          *)
Messages ==
    {<<"oops">>, <<"429">>, <<"oops", "Quota">>, <<"RATE", "Limit">>,
     <<"Limit", "RATE">>, <<"RATE", "oops", "Limit">>}

(* "x" in msg for a one-word needle, "a b" in msg for a two-word needle *)
HasWord(m, w) == \E i \in 1..Len(m) : m[i] = w

HasPair(m, a, b) == \E i \in 1..(Len(m) - 1) : m[i] = a /\ m[i + 1] = b

(* --------------------------- model responses --------------------------- *)
Absent == "<absent>"

(* values of parameters["answer"] and of a top-level "answer" *)
ParamAnswers == {Absent, "", "A1"}

TopAnswers == {Absent, "", "A2"}

(* self.tools, __init__ *)
tools == {"list_datasets", "inspect_dataset", "analyze", "visualize"}

(* a JSON list or object in the place of the action name *)
Unhashable == "<unhashable>"

(* the values of "action" the model is made to produce *)
ModelActions == {"DONE", "list_datasets", "visualize", "bogus", Unhashable}

(* The value of "parameters":                                              *)
(*   absent        the key is missing                                      *)
(*   map           a JSON object; answer is its "answer" entry, args says  *)
(*                 whether its keys fit the chosen tool's signature        *)
(*                 ("empty": the object {}, which fits a handler without   *)
(*                 parameters only)                                        *)
(*   falsy_scalar  null, 0, false                                          *)
(*   num           a non-zero number or true                               *)
(*   empty_seq     "" or []                                                *)
(*   seq           a non-empty string or list without "answer" in it       *)
(*   seq_answer    a string or list with "answer" in it                    *)
NonMapTypes == {"falsy_scalar", "num", "empty_seq", "seq", "seq_answer"}

NoParams == [t |-> "absent", answer |-> Absent, args |-> "misfit"]

(* parsed["parameters"] = {} *)
EmptyMap == [t |-> "map", answer |-> Absent, args |-> "empty"]

NonMapParams == {[t |-> n, answer |-> Absent, args |-> "misfit"] : n \in NonMapTypes}

(* parameters sent with a tool name *)
ToolParams ==
    {NoParams, EmptyMap}
    \cup {[t |-> "map", answer |-> Absent, args |-> g] : g \in {"fit", "misfit"}}
    \cup {[t |-> "map", answer |-> "A1", args |-> "misfit"]}
    \cup NonMapParams

(* parameters sent with DONE *)
DoneParams ==
    {NoParams, EmptyMap}
    \cup {[t |-> "map", answer |-> a, args |-> "misfit"] : a \in ParamAnswers \ {Absent}}
    \cup NonMapParams

(* The parsed JSON value.  shape "list" is a JSON array lacking "thought"  *)
(* or "action" among its items, shape "other" any other non-object (a      *)
(* number, null, a string, an array holding both words).                   *)
NoJson ==
    [shape |-> "none", hasThought |-> FALSE, hasAction |-> FALSE,
     action |-> "bogus", params |-> NoParams, topAnswer |-> Absent]

JsonDecisions ==
    {[shape |-> "dict", hasThought |-> TRUE, hasAction |-> TRUE,
      action |-> a, params |-> p, topAnswer |-> Absent] :
        a \in ModelActions \ {"DONE"}, p \in ToolParams}
    \cup {[shape |-> "dict", hasThought |-> TRUE, hasAction |-> TRUE,
           action |-> "DONE", params |-> p, topAnswer |-> ta] :
        p \in DoneParams, ta \in TopAnswers}

JsonMalformed ==
    {[NoJson EXCEPT !.shape = s] : s \in {"list", "other"}}
    \cup {[NoJson EXCEPT !.shape = "dict", !.hasThought = ht, !.hasAction = ha] :
            ht \in BOOLEAN, ha \in {FALSE}}
    \cup {[NoJson EXCEPT !.shape = "dict", !.hasThought = FALSE, !.hasAction = TRUE]}

(* How response.text parses:                                               *)
(*   direct       json.loads(content) succeeds                             *)
(*   fenced       it fails, a closed ```json block holds valid JSON        *)
(*   fenced_bad   it fails, a closed ```json block holds invalid JSON      *)
(*   unclosed     it fails, ```json is present without a closing fence     *)
(*   plain        it fails and the text has no ```json                     *)
ParsedKinds == {"direct", "fenced"}

UnparsedKinds == {"fenced_bad", "unclosed", "plain"}

Neutral == <<"oops">>

(* decisions the model also sends inside a ```json fence *)
FencedDecisions ==
    {j \in JsonDecisions : j.action \in {"DONE", "bogus"} /\ j.params.t = "map"}

(* one outcome of llm.generate_content(...) followed by response.text *)
Responses ==
    {[kind |-> "raise", msg |-> m, parse |-> "plain", content |-> Neutral,
      json |-> NoJson] : m \in Messages}
    \cup {[kind |-> "text", msg |-> Neutral, parse |-> k, content |-> c,
           json |-> NoJson] : k \in UnparsedKinds, c \in Messages}
    \cup {[kind |-> "text", msg |-> Neutral, parse |-> "direct", content |-> c,
           json |-> j] : c \in Messages, j \in JsonMalformed}
    \cup {[kind |-> "text", msg |-> Neutral, parse |-> "fenced", content |-> Neutral,
           json |-> j] : j \in JsonMalformed}
    \cup {[kind |-> "text", msg |-> Neutral, parse |-> "direct", content |-> Neutral,
           json |-> j] : j \in JsonDecisions}
    \cup {[kind |-> "text", msg |-> Neutral, parse |-> "fenced", content |-> Neutral,
           json |-> j] : j \in FencedDecisions}

(* ------------------------------ gateway -------------------------------- *)
(* the test of _call_llm_with_retry on str(e).lower() *)
IsRateLimit(msg) ==
    LET error_msg == LowerMsg(msg)
    IN  \/ HasWord(error_msg, "429")
        \/ HasWord(error_msg, "quota")
        \/ HasPair(error_msg, "rate", "limit")

(* str(e) of json.JSONDecodeError and of the TypeErrors of _call_llm *)
JsonDecodeMsg == <<"Expecting", "value">>

TypeErrorMsg == <<"TypeError">>

(* raise RuntimeError(f"LLM error: {str(e)}") *)
LlmFailure(inner, m) ==
    [ok |-> FALSE, msg |-> <<"LLM", "error:">> \o m, inner |-> inner,
     action |-> "bogus", params |-> NoParams]

(* the "Handle DONE action" block of _call_llm; TRUE when it raises *)
DoneFallbackRaises(j, p) ==
    /\ j.action = "DONE"
    /\ \/ p.t \in {"falsy_scalar", "num"}
       \/ p.t \in {"empty_seq", "seq"} /\ j.topAnswer # Absent

(* the top-level answer taken even when parameters has one *)
DoneFallback_TopFirst(j, p) ==
    IF j.action = "DONE" /\ p.t = "map" /\ j.topAnswer # Absent
    THEN [p EXCEPT !.answer = j.topAnswer]
    ELSE p

DoneFallback(j, p) ==
    IF j.action = "DONE" /\ p.t = "map" /\ p.answer = Absent /\ j.topAnswer # Absent
    THEN [p EXCEPT !.answer = j.topAnswer]
    ELSE p

(* validation and defaults of _call_llm on the parsed JSON value *)
ValidateParsed(j, content) ==
    IF j.shape = "other" THEN LlmFailure("type_error", TypeErrorMsg)
    ELSE IF j.shape = "list" \/ ~j.hasThought \/ ~j.hasAction
    THEN LlmFailure("missing_fields", <<"Missing", "fields:">> \o content)
    ELSE LET p == IF j.params.t = "absent" THEN EmptyMap ELSE j.params
         IN  IF DoneFallbackRaises(j, p)
             THEN LlmFailure("type_error", TypeErrorMsg)
             ELSE [ok |-> TRUE, msg |-> <<>>, inner |-> "none",
                   action |-> j.action, params |-> DoneFallback(j, p)]

(* _call_llm on one outcome of generate_content *)
call_llm(resp) ==
    IF resp.kind = "raise" THEN LlmFailure("api", resp.msg)
    ELSE IF resp.parse = "plain"
    THEN LlmFailure("parse",
                    <<"Failed", "to", "parse:">> \o Take(resp.content, ContentPrefix))
    ELSE IF resp.parse = "unclosed"
    THEN LlmFailure("invalid_json",
                    <<"Invalid", "JSON:">> \o Take(resp.content, ContentPrefix))
    ELSE IF resp.parse = "fenced_bad"
    THEN LlmFailure("json_decode", JsonDecodeMsg)
    ELSE ValidateParsed(resp.json, resp.content)

(* ------------------------------- tools --------------------------------- *)
Aliases == {"df"}

(* _DATASET_STORE: alias -> whether the frame's column labels are strings  *)
(* (build_agent_prompt joins them with ', '.join and raises otherwise)     *)
Stores == UNION {[S -> BOOLEAN] : S \in SUBSET Aliases}

(* SafeCodeExecutor.update_datasets with the reference to the store       *)
(* dropped: the executor keeps an empty mapping                            *)
update_datasets_Empty(datasets) == [a \in {} |-> TRUE]

(* SafeCodeExecutor.update_datasets: self.datasets = datasets.copy(), the  *)
(* new value of the executor's mapping                                     *)
update_datasets(datasets) == [a \in DOMAIN datasets |-> datasets[a]]

(* build_agent_prompt raises on a frame whose column labels are not str *)
build_agent_prompt_raises(datasets) ==
    \E a \in DOMAIN datasets : ~datasets[a]

(* the keyword call of tool.execute with the parameters binds: parameters *)
(* is a mapping whose keys match the handler's signature                  *)
ArgsFit(tool_name, p) ==
    /\ p.t = "map"
    /\ p.answer = Absent
    /\ \/ p.args = "fit"
       \/ p.args = "empty" /\ tool_name = "list_datasets"

(* what a handler can do once its arguments are bound *)
HandlerOutcomes(tool_name, datasets) ==
    CASE tool_name = "list_datasets" -> {"success"}
      [] tool_name = "inspect_dataset" ->
            IF DOMAIN datasets = {} THEN {"error"} ELSE {"success", "error"}
      [] OTHER -> {"success", "error", "raise"}

ToolResult(status, kind) == [status |-> status, kind |-> kind]

(* _execute_tool without its try/except around tool.execute *)
execute_tool_Uncaught(tool_name, p, outcome) ==
    IF tool_name = Unhashable THEN ToolResult("raised", "type_error")
    ELSE IF tool_name \notin tools THEN ToolResult("error", "not_found")
    ELSE IF outcome \in {"unbound", "raise"}
    THEN ToolResult("raised", "tool_error")
    ELSE IF outcome = "error" THEN ToolResult("error", "reported")
    ELSE ToolResult("success", "ok")

(* _execute_tool without the membership test: self.tools[tool_name] raises *)
execute_tool_KeyError(tool_name, p, outcome) ==
    IF tool_name \notin tools THEN ToolResult("raised", "key_error")
    ELSE IF outcome \in {"unbound", "raise"}
    THEN ToolResult("error", "tool_error")
    ELSE IF outcome = "error" THEN ToolResult("error", "reported")
    ELSE ToolResult("success", "ok")

(* _execute_tool; status "raised" when an exception leaves it: the test    *)
(* "tool_name not in self.tools" stands outside the try and raises         *)
(* TypeError on an unhashable name                                         *)
execute_tool(tool_name, p, outcome) ==
    IF tool_name = Unhashable THEN ToolResult("raised", "type_error")
    ELSE IF tool_name \notin tools THEN ToolResult("error", "not_found")
    ELSE IF outcome \in {"unbound", "raise"}
    THEN ToolResult("error", "tool_error")
    ELSE IF outcome = "error" THEN ToolResult("error", "reported")
    ELSE ToolResult("success", "ok")

(* _summarize_result *)
summarize_result(res) ==
    IF res.status = "error" THEN <<"Error:", res.kind>> ELSE <<"result">>

(* ------------------------------ memory --------------------------------- *)
VARIABLE max_turns    \* self.max_turns, the maxlen of the deque self.turns

Max(a, b) == IF a > b THEN a ELSE b

(* a deque without maxlen *)
deque_append_Unbounded(d, x, maxlen) == d \o <<x>>

(* a full deque dropping its rightmost item *)
deque_append_DropNewest(d, x, maxlen) ==
    IF maxlen = 0 THEN d
    ELSE IF Len(d) >= maxlen THEN SubSeq(d, 1, Len(d) - 1) \o <<x>>
    ELSE d \o <<x>>

(* deque(maxlen=maxlen).append(x): a full deque drops its leftmost item, a  *)
(* deque of maxlen 0 stays empty                                           *)
deque_append(d, x, maxlen) ==
    IF maxlen = 0 THEN d
    ELSE IF Len(d) >= maxlen THEN Tail(d) \o <<x>>
    ELSE d \o <<x>>

(* add_turn that records only the turns whose tool succeeded *)
add_turn_SkipErrors(turns, turn) ==
    IF Len(turn.result) > 0 /\ turn.result[1] = "Error:"
    THEN turns
    ELSE deque_append(turns, turn, max_turns)

(* ConversationMemory.add_turn *)
add_turn(turns, turn) == deque_append(turns, turn, max_turns)

(* the slice lst[:n], the oldest items *)
LastSlice_Oldest(lst, n) == SubSeq(lst, 1, Min(n, Len(lst)))

(* the slice lst[-n:] of Python: -0 is 0, so n = 0 selects the whole list  *)
LastSlice(lst, n) ==
    LET start == IF n > 0 THEN Max(Len(lst) - n, 0) ELSE Min(0 - n, Len(lst))
    IN  SubSeq(lst, start + 1, Len(lst))

(* the lines get_recent_context renders for the i-th turn of the window:   *)
(* its number, its action and result[:300]; the query is not rendered      *)
RenderTurn(i, turn) ==
    [number |-> i, action |-> turn.action, result |-> Take(turn.result, ResultPrefix)]

(* the empty deque rendered like any other *)
get_recent_context_NoSentinel(turns, last_n) ==
    LET recent == LastSlice(turns, last_n)
    IN  [sentinel |-> FALSE,
         recent |-> [i \in 1..Len(recent) |-> RenderTurn(i, recent[i])]]

(* ConversationMemory.get_recent_context(last_n): the "No previous         *)
(* conversation." text (sentinel) or the rendered turns                    *)
get_recent_context(turns, last_n) ==
    IF turns = <<>>
    THEN [sentinel |-> TRUE, recent |-> <<>>]
    ELSE LET recent == LastSlice(turns, last_n)
         IN  [sentinel |-> FALSE,
              recent |-> [i \in 1..Len(recent) |-> RenderTurn(i, recent[i])]]

(* the window _build_context_prompt asks for: last_n=3 *)
PromptWindow == 3

NoTurn == [query |-> "", action |-> "none", result |-> <<>>]

(* the last call made on the ConversationMemory: its name, self.turns      *)
(* before it, its arguments and what it returned                           *)
NoMemOp ==
    [op |-> "none", before |-> <<>>, turn |-> NoTurn, last_n |-> 0,
     sentinel |-> FALSE, recent |-> <<>>]

MemAdded(turns, turn) ==
    [NoMemOp EXCEPT !.op = "add_turn", !.before = turns, !.turn = turn]

MemWindow(turns, n) ==
    [NoMemOp EXCEPT !.op = "get_recent_context", !.before = turns, !.last_n = n,
                    !.sentinel = get_recent_context(turns, n).sentinel,
                    !.recent = get_recent_context(turns, n).recent]

MemCleared(turns) == [NoMemOp EXCEPT !.op = "clear", !.before = turns]

(* ------------------------------- state --------------------------------- *)
VARIABLES
    max_iterations,   \* self.max_iterations
    max_retries,      \* self.max_retries
    verbose,          \* self.verbose
    store,            \* _DATASET_STORE
    memory,           \* self.memory.turns
    execDatasets,     \* self.executor.datasets
    pc,               \* where run() stands: idle, loop (the while test), llm
                      \* (inside _call_llm_with_retry), returned, crashed
                      \* (an exception left run())
    query,            \* user_query of the current run()
    iterations,       \* local iterations of run()
    history,          \* local conversation_history of run()
    visualizations,   \* local visualizations of run()
    attempt,          \* loop variable of _call_llm_with_retry
    decision,         \* action and parameters of the current iteration
                      \* (dead after step 9, reset there)
    result,           \* the dictionary run() returned
    llmCalls,         \* generate_content calls made by _call_llm in this run()
    decideCalls,      \* ... in the current _call_llm_with_retry
    toolCalls,        \* _execute_tool calls made in this run()
    syncCalls,        \* executor.update_datasets calls made in this run()
    sleeps,           \* time.sleep arguments of the current _call_llm_with_retry
    last,             \* the model response of this iteration and how the
                      \* gateway took it
    handler,          \* what the handler did in this iteration's _execute_tool:
                      \* none, not_called, unbound (the call could not bind
                      \* the parameters), success, error, raise
    decided,          \* the actions run() received from the gateway in this run()
    memop,            \* the last call made on self.memory
    caller            \* what the caller of the agent has done and seen

vars ==
    <<max_iterations, max_retries, verbose, store, memory, execDatasets, pc,
      query, iterations, history, visualizations, attempt, decision, result,
      llmCalls, decideCalls, toolCalls, syncCalls, sleeps, last, handler, decided,
      max_turns, memop, caller>>

(* the constructor's arguments and the dataset store *)
config == <<max_iterations, max_retries, verbose, store, max_turns>>

(* the caller's side: finished calls of run(), self.memory.turns as the    *)
(* last run() left them (none once clear_memory() was called), whether the *)
(* memory was cleared since, the turns a direct clear() removed, and the   *)
(* results of the direct _execute_tool calls                               *)
NoCaller ==
    [runs |-> 0, carried |-> <<>>, cleared |-> FALSE, dropped |-> <<>>,
     results |-> <<>>]

(* the user queries given to run() *)
Queries == {"q1"}

NoDecision == [action |-> "none", params |-> NoParams]

NoResult ==
    [status |-> "none", kind |-> "none", cause |-> "none", inner |-> "none",
     error_message |-> <<>>,
     answer |-> Absent, iterations |-> 0, hasHistory |-> FALSE,
     conversation_history |-> <<>>, visualizations |-> <<>>]

NoLast == [outcome |-> "none", rl |-> FALSE, parse |-> "none", json |-> NoJson]

(* the fixed words of the error_message of each error return of run();    *)
(* the numbers formatted into two of them are max_retries and              *)
(* max_iterations, the same for all results of one agent                   *)
ErrorText(kind) ==
    CASE kind = "prompt_error" -> <<"Prompt", "error:", "TypeError">>
      [] kind = "llm_error" -> <<"LLM", "error:">>
      [] kind = "no_answer" -> <<"Agent", "finished", "without", "answer">>
      [] kind = "budget" -> <<"Did", "not", "complete", "within", "iterations">>
      [] OTHER -> <<>>

(* str(e) of the two RuntimeErrors _call_llm_with_retry raises itself *)
RateLimitExceededMsg == <<"Rate", "limit", "exceeded", "after", "attempts">>

NoAttemptsMsg == <<"Failed", "to", "call", "LLM", "after", "all", "retries">>

(* the three error dictionaries without "conversation_history" *)
ErrorResult(kind, cause, inner, n) ==
    [NoResult EXCEPT !.status = "error", !.kind = kind, !.cause = cause,
                     !.inner = inner, !.iterations = n,
                     !.error_message = ErrorText(kind)]

(* the agent as __init__ leaves it, no run() entered yet *)
Fresh ==
    /\ memory = <<>>
    /\ execDatasets = [a \in {} |-> TRUE]
    /\ pc = "idle"
    /\ query = ""
    /\ iterations = 0
    /\ history = <<>>
    /\ visualizations = <<>>
    /\ attempt = 0
    /\ decision = NoDecision
    /\ result = NoResult
    /\ llmCalls = 0
    /\ decideCalls = 0
    /\ toolCalls = 0
    /\ syncCalls = 0
    /\ sleeps = <<>>
    /\ last = NoLast
    /\ handler = "none"
    /\ decided = <<>>
    /\ memop = NoMemOp
    /\ caller = NoCaller

Init ==
    /\ max_iterations \in 1..MaxIterations
    /\ max_retries \in 0..MaxRetries
    /\ verbose \in BOOLEAN
    /\ store \in Stores
    /\ max_turns = MaxTurns
    /\ Fresh

(* ------------------------------- run() --------------------------------- *)
(* the loop test with <= for < *)
LoopContinues_OffByOne(n, limit) == n <= limit

(* while iterations < self.max_iterations *)
LoopContinues(n, limit) == n < limit

(* the wait growing by retry_delay for each attempt *)
wait_time_Linear(k) == RetryDelay * (k + 1)

(* wait_time = self.retry_delay * (2 ** attempt) *)
wait_time(k) == RetryDelay * Pow2(k)

(* run() emptying self.memory.turns on entry *)
RunStart_ClearsMemory ==
    /\ pc = "idle"
    /\ query' \in Queries
    /\ iterations' = 0
    /\ visualizations' = <<>>
    /\ history' = <<>>
    /\ pc' = "loop"
    /\ result' = NoResult
    /\ decision' = NoDecision
    /\ attempt' = 0
    /\ llmCalls' = 0
    /\ decideCalls' = 0
    /\ toolCalls' = 0
    /\ syncCalls' = 0
    /\ sleeps' = <<>>
    /\ last' = NoLast
    /\ handler' = "none"
    /\ decided' = <<>>
    /\ memory' = <<>>
    /\ UNCHANGED <<config, caller, memop, execDatasets>>

(* run(user_query) is entered: lines 65-67 *)
RunStart ==
    /\ pc = "idle"
    /\ query' \in Queries
    /\ iterations' = 0
    /\ visualizations' = <<>>
    /\ history' = <<>>
    /\ pc' = "loop"
    /\ result' = NoResult
    /\ decision' = NoDecision
    /\ attempt' = 0
    /\ llmCalls' = 0
    /\ decideCalls' = 0
    /\ toolCalls' = 0
    /\ syncCalls' = 0
    /\ sleeps' = <<>>
    /\ last' = NoLast
    /\ handler' = "none"
    /\ decided' = <<>>
    /\ UNCHANGED <<config, caller, memop, memory, execDatasets>>

(* while test true, iterations += 1, _build_context_prompt raises *)
BuildPromptFails ==
    /\ pc = "loop"
    /\ LoopContinues(iterations, max_iterations)
    /\ build_agent_prompt_raises(store)
    /\ iterations' = iterations + 1
    /\ pc' = "returned"
    /\ result' = ErrorResult("prompt_error", "none", "none", iterations + 1)
    /\ UNCHANGED <<config, caller, memop, memory, execDatasets, query, history, visualizations,
                   attempt, decision, llmCalls, decideCalls, toolCalls, syncCalls,
                   sleeps, last, handler, decided>>

(* while test true, iterations += 1, prompt built, _call_llm_with_retry entered *)
IterationStart ==
    /\ pc = "loop"
    /\ LoopContinues(iterations, max_iterations)
    /\ ~build_agent_prompt_raises(store)
    /\ iterations' = iterations + 1
    /\ pc' = "llm"
    /\ attempt' = 0
    /\ decideCalls' = 0
    /\ sleeps' = <<>>
    /\ last' = NoLast
    /\ handler' = "none"
    /\ decision' = NoDecision
    /\ memop' = MemWindow(memory, PromptWindow)
    /\ UNCHANGED <<config, caller, memory, execDatasets, query, history,
                   visualizations, result, llmCalls, toolCalls, syncCalls, decided>>

(* while test false: "Max iterations reached" *)
BudgetExhausted ==
    /\ pc = "loop"
    /\ ~LoopContinues(iterations, max_iterations)
    /\ pc' = "returned"
    /\ result' = [NoResult EXCEPT !.status = "error", !.kind = "budget",
                                  !.error_message = ErrorText("budget"),
                                  !.iterations = iterations,
                                  !.hasHistory = TRUE,
                                  !.conversation_history = history]
    /\ UNCHANGED <<config, caller, memop, memory, execDatasets, query, iterations, history,
                   visualizations, attempt, decision, llmCalls,
                   decideCalls, toolCalls, syncCalls, sleeps, last, handler, decided>>

(* the responses on which _call_llm raises, and those it returns on *)
Failing == {resp \in Responses : ~call_llm(resp).ok}

Deciding == {resp \in Responses : call_llm(resp).ok}

(* ----------------------- _call_llm_with_retry -------------------------- *)
(* every failure retried, whatever its message *)
RetryVerdict_RetryAll(msg, k, retries) ==
    IF k < retries - 1 THEN "retry"
    ELSE IF IsRateLimit(msg) THEN "exceeded" ELSE "raise"

(* the last attempt taken one attempt early *)
RetryVerdict_OneShort(msg, k, retries) ==
    IF IsRateLimit(msg)
    THEN IF k < retries - 2 THEN "retry" ELSE "exceeded"
    ELSE "raise"

(* the except branch of the retry loop: sleep and continue, raise the      *)
(* rate-limit RuntimeError, or re-raise e                                  *)
RetryVerdict(msg, k, retries) ==
    IF IsRateLimit(msg)
    THEN IF k < retries - 1 THEN "retry" ELSE "exceeded"
    ELSE "raise"

(* the except of step 2 with "continue" for "return" *)
GatewayFailed_Continue(cause, inner, e) ==
    /\ pc' = "loop"
    /\ result' = result
    /\ UNCHANGED <<config, caller, memop, memory, execDatasets, query, iterations, history,
                   visualizations, attempt, decision, toolCalls, syncCalls, sleeps,
                   handler, decided>>

(* a gateway failure that is also written to Memory as a Turn *)
GatewayFailed_Records(cause, inner, e) ==
    /\ pc' = "returned"
    /\ result' = [ErrorResult("llm_error", cause, inner, iterations)
                    EXCEPT !.error_message = @ \o e]
    /\ memory' = add_turn(memory, [query |-> query, action |-> "none",
                                   result |-> <<"Error:", cause>>])
    /\ UNCHANGED <<config, caller, memop, execDatasets, query, iterations, history,
                   visualizations, attempt, decision, toolCalls, syncCalls, sleeps,
                   handler, decided>>

(* run() lines 95-101: the gateway raised e, run() returns with            *)
(* f"LLM error: {str(e)}"                                                  *)
GatewayFailed(cause, inner, e) ==
    /\ pc' = "returned"
    /\ result' = [ErrorResult("llm_error", cause, inner, iterations)
                    EXCEPT !.error_message = @ \o e]
    /\ UNCHANGED <<config, caller, memop, memory, execDatasets, query, iterations, history,
                   visualizations, attempt, decision, toolCalls, syncCalls, sleeps,
                   handler, decided>>

(* one generate_content call made by _call_llm.  last records the call:    *)
(* outcome "failed" (with rl, how the retry loop classified the failure),  *)
(* "ok" (run() ended on the parsed response, kept in json) or "dispatched" *)
ModelCalled(resp, outcome, rl) ==
    /\ llmCalls' = llmCalls + 1
    /\ decideCalls' = decideCalls + 1
    /\ last' = [outcome |-> outcome,
                rl |-> rl,
                parse |-> IF resp.kind = "raise" THEN "raise" ELSE resp.parse,
                json |-> IF outcome = "dispatched" THEN NoJson ELSE resp.json]

(* range(self.max_retries) is empty: "Failed to call LLM after all retries" *)
RetryLoopEmpty ==
    /\ pc = "llm"
    /\ ~(attempt < max_retries)
    /\ GatewayFailed("no_attempts", "none", NoAttemptsMsg)
    /\ UNCHANGED <<llmCalls, decideCalls, last>>

(* a rate-limit failure before the last attempt: sleep, next attempt *)
RateLimitRetry ==
    /\ pc = "llm"
    /\ attempt < max_retries
    /\ \E resp \in Failing :
          LET r == call_llm(resp)
          IN  /\ RetryVerdict(r.msg, attempt, max_retries) = "retry"
              /\ ModelCalled(resp, "failed", IsRateLimit(r.msg))
    /\ sleeps' = Append(sleeps, wait_time(attempt))
    /\ attempt' = attempt + 1
    /\ UNCHANGED <<config, caller, memop, memory, execDatasets, pc, query, iterations, history,
                   visualizations, decision, result, toolCalls, syncCalls, handler,
                   decided>>

(* a last attempt that sleeps its backoff before it gives up *)
RateLimitExceeded_Sleeps ==
    /\ pc = "llm"
    /\ attempt < max_retries
    /\ \E resp \in Failing :
          LET r == call_llm(resp)
          IN  /\ RetryVerdict(r.msg, attempt, max_retries) = "exceeded"
              /\ ModelCalled(resp, "failed", IsRateLimit(r.msg))
    /\ sleeps' = Append(sleeps, wait_time(attempt))
    /\ pc' = "returned"
    /\ result' = [ErrorResult("llm_error", "rate_limit_exceeded", "none", iterations)
                    EXCEPT !.error_message = @ \o RateLimitExceededMsg]
    /\ UNCHANGED <<config, caller, memop, memory, execDatasets, query, iterations,
                   history, visualizations, attempt, decision, toolCalls, syncCalls,
                   handler, decided>>

(* a rate-limit failure on the last attempt *)
RateLimitExceeded ==
    /\ pc = "llm"
    /\ attempt < max_retries
    /\ \E resp \in Failing :
          LET r == call_llm(resp)
          IN  /\ RetryVerdict(r.msg, attempt, max_retries) = "exceeded"
              /\ ModelCalled(resp, "failed", IsRateLimit(r.msg))
              /\ GatewayFailed("rate_limit_exceeded", "none", RateLimitExceededMsg)

(* any other failure of _call_llm: raise e *)
CallFailed ==
    /\ pc = "llm"
    /\ attempt < max_retries
    /\ \E resp \in Failing :
          LET r == call_llm(resp)
          IN  /\ RetryVerdict(r.msg, attempt, max_retries) = "raise"
              /\ ModelCalled(resp, "failed", IsRateLimit(r.msg))
              /\ GatewayFailed("call_failed", r.inner, r.msg)

(* ------------------ run(): steps 3 and 4 on a Decision ----------------- *)
(* _print_step: "if parameters:" then parameters.items() *)
PrintStepRaises(v, p) == v /\ p.t \in {"num", "seq", "seq_answer"}

(* "if final_answer is None" for "if not final_answer" *)
StepOutcome_EmptyAccepted(v, action, p) ==
    IF PrintStepRaises(v, p) THEN "crash"
    ELSE IF action = "DONE"
    THEN IF p.t # "map" THEN "crash"
         ELSE IF p.answer = Absent THEN "no_answer"
         ELSE "success"
    ELSE "dispatch"

(* what run() does with the parsed response up to the dispatch *)
StepOutcome(v, action, p) ==
    IF PrintStepRaises(v, p) THEN "crash"
    ELSE IF action = "DONE"
    THEN IF p.t # "map" THEN "crash"
         ELSE IF p.answer = Absent \/ p.answer = "" THEN "no_answer"
         ELSE "success"
    ELSE "dispatch"

(* _call_llm returned the parsed response r *)
Delivered(resp, r) ==
    /\ ModelCalled(resp, "ok", FALSE)
    /\ decision' = [action |-> r.action, params |-> r.params]
    /\ decided' = Append(decided, r.action)
    /\ UNCHANGED <<config, caller, memop, memory, execDatasets, query, iterations, history,
                   visualizations, attempt, toolCalls, syncCalls, sleeps, handler>>

(* an AttributeError leaves run() *)
DecisionCrashes ==
    /\ pc = "llm"
    /\ attempt < max_retries
    /\ \E resp \in Deciding :
          LET r == call_llm(resp)
          IN  /\ StepOutcome(verbose, r.action, r.params) = "crash"
              /\ Delivered(resp, r)
    /\ pc' = "crashed"
    /\ UNCHANGED result

(* DONE and "not final_answer" *)
DoneWithoutAnswer ==
    /\ pc = "llm"
    /\ attempt < max_retries
    /\ \E resp \in Deciding :
          LET r == call_llm(resp)
          IN  /\ StepOutcome(verbose, r.action, r.params) = "no_answer"
              /\ Delivered(resp, r)
    /\ pc' = "returned"
    /\ result' = ErrorResult("no_answer", "none", "none", iterations)

(* DONE with an answer *)
DoneWithAnswer ==
    /\ pc = "llm"
    /\ attempt < max_retries
    /\ \E resp \in Deciding :
          LET r == call_llm(resp)
          IN  /\ StepOutcome(verbose, r.action, r.params) = "success"
              /\ Delivered(resp, r)
              /\ result' = [NoResult EXCEPT
                                !.status = "success", !.kind = "success",
                                !.answer = r.params.answer,
                                !.visualizations = visualizations,
                                !.iterations = iterations,
                                !.hasHistory = TRUE,
                                !.conversation_history = history]
    /\ pc' = "returned"

(* ------------------------ run(): steps 5 to 9 -------------------------- *)
(* step 6: a successful visualize result is tracked *)
track_visualization(vis, action, res, n) ==
    IF action = "visualize" /\ res.status = "success" THEN Append(vis, n) ELSE vis

(* the handler's behaviour _execute_tool meets for this decision *)
Outcomes(action, p) ==
    IF action \in tools /\ ArgsFit(action, p)
    THEN HandlerOutcomes(action, store)
    ELSE IF action \in tools THEN {"unbound"} ELSE {"not_called"}

(* an exception leaves _execute_tool and so run() *)
DispatchCrashes ==
    /\ pc = "llm"
    /\ attempt < max_retries
    /\ \E resp \in Deciding :
          LET r == call_llm(resp)
          IN  /\ StepOutcome(verbose, r.action, r.params) = "dispatch"
              /\ \E outcome \in Outcomes(r.action, r.params) :
                    /\ execute_tool(r.action, r.params, outcome).status = "raised"
                    /\ handler' = outcome
              /\ ModelCalled(resp, "ok", FALSE)
              /\ decision' = [action |-> r.action, params |-> r.params]
              /\ decided' = Append(decided, r.action)
    /\ toolCalls' = toolCalls + 1
    /\ pc' = "crashed"
    /\ UNCHANGED <<config, caller, memop, memory, execDatasets, syncCalls, query, iterations, history,
                   visualizations, attempt, result, sleeps>>

(* _execute_tool returns a result: steps 6 to 9, back to the while test *)
ToolIteration ==
    /\ pc = "llm"
    /\ attempt < max_retries
    /\ \E resp \in Deciding :
          LET r == call_llm(resp)
          IN  /\ StepOutcome(verbose, r.action, r.params) = "dispatch"
              /\ ModelCalled(resp, "dispatched", FALSE)
              /\ decided' = Append(decided, r.action)
              /\ \E outcome \in Outcomes(r.action, r.params) :
                    LET res == execute_tool(r.action, r.params, outcome)
                    IN  /\ res.status # "raised"
                        /\ handler' = outcome
                        /\ visualizations' =
                              track_visualization(visualizations, r.action, res,
                                                  iterations)
                        /\ memory' = add_turn(memory,
                                              [query |-> query, action |-> r.action,
                                               result |-> summarize_result(res)])
                        /\ memop' = MemAdded(memory,
                                              [query |-> query, action |-> r.action,
                                               result |-> summarize_result(res)])
                        /\ history' = Append(history,
                                             [iteration |-> iterations,
                                              action |-> r.action,
                                              status |-> res.status,
                                              kind |-> res.kind])
    /\ toolCalls' = toolCalls + 1
    /\ execDatasets' = update_datasets(store)
    /\ syncCalls' = syncCalls + 1
    /\ pc' = "loop"
    /\ attempt' = 0
    /\ sleeps' = <<>>
    /\ UNCHANGED <<config, caller, query, iterations, decision, result>>

Next ==
    \/ RunStart
    \/ BuildPromptFails
    \/ IterationStart
    \/ BudgetExhausted
    \/ RetryLoopEmpty
    \/ RateLimitRetry
    \/ RateLimitExceeded
    \/ CallFailed
    \/ DecisionCrashes
    \/ DoneWithoutAnswer
    \/ DoneWithAnswer
    \/ DispatchCrashes
    \/ ToolIteration

Spec == Init /\ [][Next]_vars

(* ---------------------------- properties ------------------------------- *)
Ended == pc \in {"returned", "crashed"}

(* run() ended on the response the gateway parsed last *)
EndedOnDecision == Ended /\ last.outcome = "ok"

(* a decision whose action is no string or whose parameters is no mapping *)
IllFormed(d) == d.action = Unhashable \/ d.params.t \in NonMapTypes

NoDoneDecided == \A i \in 1..Len(decided) : decided[i] # "DONE"

(* C1: whatever the model responds (also a Decision whose parameters is   *)
(* not a mapping) and whatever the tools do, run() returns a dictionary   *)
(* with status success or error; no exception leaves run().               *)
C1_NoFaultLeavesRun ==
    /\ pc # "crashed"
    /\ pc = "returned" => result.status \in {"success", "error"}

(* C2: run() never runs more than max_iterations iterations, and a run in  *)
(* which every iteration received a well-formed Decision other than DONE   *)
(* returns status error with iterations = max_iterations and a history of  *)
(* max_iterations entries, after max_iterations dispatches.                 *)
C2_BudgetExhaustion ==
    /\ iterations <= max_iterations
    /\ (/\ Ended
        /\ Len(decided) = iterations
        /\ NoDoneDecided
        /\ ~IllFormed(decision))
       => /\ pc = "returned"
          /\ result.status = "error"
          /\ result.kind = "budget"
          /\ iterations = max_iterations
          /\ result.iterations = max_iterations
          /\ result.hasHistory
          /\ Len(result.conversation_history) = max_iterations
          /\ toolCalls = max_iterations

C2_Witness ==
    /\ pc = "returned"
    /\ result.kind = "budget"
    /\ max_iterations = 2
    /\ decided = <<"visualize", "bogus">>

(* C3: when the i-th Decision of a run is DONE with a non-empty            *)
(* parameters.answer, after i-1 dispatched tool actions, run() returns     *)
(* status success with exactly that answer and iterations = i.             *)
C3_DoneReturnsAnswer ==
    (/\ EndedOnDecision
     /\ last.json.action = "DONE"
     /\ last.json.params.t = "map"
     /\ last.json.params.answer \notin {Absent, ""})
    => /\ pc = "returned"
       /\ result.status = "success"
       /\ result.answer = last.json.params.answer
       /\ result.iterations = Len(decided)
       /\ decided[Len(decided)] = "DONE"
       /\ \A i \in 1..(Len(decided) - 1) : decided[i] # "DONE"
       /\ toolCalls = Len(decided) - 1
       /\ Len(decided) <= max_iterations

C3_Witness ==
    /\ pc = "returned"
    /\ result.status = "success"
    /\ result.answer = "A1"
    /\ result.iterations = 2
    /\ decided = <<"list_datasets", "DONE">>

(* C4 as written: DONE whose parameters mapping holds no non-empty answer  *)
(* ends the run with the missing-answer error.                             *)
RawAnswerMissing(j) ==
    /\ j.action = "DONE"
    /\ j.params.t = "map"
    /\ j.params.answer \in {Absent, ""}

EffectiveAnswer(j) ==
    IF j.params.answer # Absent THEN j.params.answer ELSE j.topAnswer

C5_GatewayFailureAborts ==
    /\ (last.outcome = "failed" /\ (~last.rl \/ decideCalls >= max_retries))
       => /\ pc = "returned"
          /\ result.status = "error"
          /\ result.kind = "llm_error"
          /\ result.iterations = iterations
          /\ handler = "none"
          /\ toolCalls = iterations - 1
          /\ Len(history) = iterations - 1
          /\ Len(memory) = iterations - 1
          /\ Len(decided) = iterations - 1
    /\ (pc = "returned" /\ result.kind = "llm_error")
       => /\ last.outcome \in {"failed", "none"}
          /\ result.iterations = iterations
          /\ toolCalls = iterations - 1
          /\ Len(memory) = iterations - 1

C5_Witness ==
    /\ pc = "returned"
    /\ result.kind = "llm_error"
    /\ result.iterations = 2
    /\ Len(memory) = 1
    /\ last.outcome = "failed"
    /\ ~last.rl

(* C6: an exception raised by a tool handler during dispatch is caught in  *)
(* _execute_tool and becomes an error result; run() does not end on it:    *)
(* the error is the iteration's observation in the history and in Memory,  *)
(* and the loop goes on (to the next iteration, or to the budget error     *)
(* when none is left).                                                     *)
C6_HandlerFaultContained ==
    handler \in {"raise", "unbound"}
    => /\ pc \in {"loop", "returned"}
       /\ pc = "loop" => result = NoResult
       /\ pc = "returned" => result.kind = "budget" /\ iterations = max_iterations
       /\ history # <<>>
       /\ history[Len(history)].iteration = iterations
       /\ history[Len(history)].status = "error"
       /\ history[Len(history)].kind = "tool_error"
       /\ memory # <<>>
       /\ memory[Len(memory)].result = <<"Error:", "tool_error">>
       /\ (pc = "loop" /\ iterations < max_iterations) => ENABLED IterationStart

C6_Witness ==
    /\ handler = "raise"
    /\ pc = "loop"
    /\ iterations = 1
    /\ max_iterations = 2
    /\ history[1].action = "visualize"

(* the action dispatched in this iteration is a name self.tools lacks *)
UnknownDispatched ==
    /\ iterations >= 1
    /\ toolCalls = iterations
    /\ Len(decided) = iterations
    /\ decided[iterations] \notin tools \cup {Unhashable}

(* C7: dispatching a name that is no registered tool yields an error       *)
(* result with the not-found message and raises nothing; run() does not    *)
(* abort: the error is the iteration's observation and the loop goes on    *)
(* (to the next iteration, or to the budget error when none is left).      *)
C7_UnknownToolContained ==
    UnknownDispatched
    => /\ pc \in {"loop", "returned"}
       /\ pc = "returned" => result.kind = "budget" /\ iterations = max_iterations
       /\ handler = "not_called"
       /\ history[Len(history)] =
             [iteration |-> iterations, action |-> decided[iterations],
              status |-> "error", kind |-> "not_found"]
       /\ memory[Len(memory)].result = <<"Error:", "not_found">>
       /\ (pc = "loop" /\ iterations < max_iterations) => ENABLED IterationStart

C7_Witness ==
    /\ UnknownDispatched
    /\ pc = "loop"
    /\ iterations = 1
    /\ max_iterations = 2

(* C8: a failure the retry loop does not classify as rate-limit ends the   *)
(* gateway call on the attempt where it occurs: no sleep and no model call *)
(* follow it; on the first attempt that is exactly one model call.         *)
C8_OtherFailureIsFatal ==
    (last.outcome = "failed" /\ ~last.rl)
    => /\ pc = "returned"
       /\ result.kind = "llm_error"
       /\ result.cause = "call_failed"
       /\ decideCalls = attempt + 1
       /\ Len(sleeps) = attempt
       /\ attempt = 0 => decideCalls = 1 /\ sleeps = <<>>

C8_Witness ==
    /\ last.outcome = "failed"
    /\ ~last.rl
    /\ last.parse = "raise"
    /\ attempt = 0
    /\ decideCalls = 1
    /\ max_retries = 2

(* C9: a response that parses neither directly nor from a ```json block    *)
(* makes the gateway call fail at once, whatever its text: no model call   *)
(* follows it.                                                             *)
C9_UnparseableIsFatal ==
    [][(last.outcome = "failed" /\ last.parse \in UnparsedKinds)
       => llmCalls' = llmCalls]_vars

(* C10: one gateway call makes at most max_retries model calls; when every *)
(* one of them fails as rate-limit, it fails with the rate-limit-exceeded  *)
(* error after exactly max_retries model calls.                            *)
C10_RetryBudget ==
    /\ decideCalls <= max_retries
    /\ pc = "llm" => decideCalls = attempt /\ Len(sleeps) = attempt
    /\ (last.outcome = "failed" /\ last.rl)
       => IF decideCalls = max_retries
          THEN /\ pc = "returned"
               /\ result.kind = "llm_error"
               /\ result.cause = "rate_limit_exceeded"
          ELSE pc = "llm"
    /\ result.cause = "rate_limit_exceeded"
       => /\ decideCalls = max_retries
          /\ last.outcome = "failed"
          /\ last.rl

C10_Witness ==
    /\ pc = "returned"
    /\ result.cause = "rate_limit_exceeded"
    /\ max_retries = 2
    /\ decideCalls = 2
    /\ sleeps = <<2>>

(* the JSON object of the last response lacks "thought" or "action" *)
FieldMissing(j) == j.shape = "dict" /\ ~(j.hasThought /\ j.hasAction)

(* C12: a response whose JSON object lacks action (or thought) is rejected *)
(* before any dispatch: run() returns status error at that iteration, in   *)
(* which no tool was executed and no Turn appended.                        *)
C12_MissingFieldRejected ==
    (last.outcome = "failed" /\ FieldMissing(last.json))
    => /\ pc = "returned"
       /\ result.status = "error"
       /\ result.iterations = iterations
       /\ toolCalls = iterations - 1
       /\ Len(memory) = iterations - 1

(* the error_message of the results run() returns when the model call      *)
(* itself failed: the API raised a failure not classified as rate-limit,   *)
(* the rate-limit retries ran out, or no attempt was allowed               *)
GatewayFailureMessages ==
    {ErrorText("llm_error") \o LlmFailure("api", m).msg :
        m \in {x \in Messages : ~IsRateLimit(LlmFailure("api", x).msg)}}
    \cup {ErrorText("llm_error") \o RateLimitExceededMsg,
          ErrorText("llm_error") \o NoAttemptsMsg}

(* run() returned on a response that was no Decision: unparseable text or  *)
(* JSON without the required fields                                        *)
EndedOnMalformed ==
    /\ pc = "returned"
    /\ last.outcome = "failed"
    /\ last.parse # "raise"

(* C13: the error run() returns for a malformed Decision is told apart     *)
(* from the error it returns for a gateway failure.                        *)
C13_MalformedDistinct ==
    EndedOnMalformed => result.error_message \notin GatewayFailureMessages

(* ------------------- one iteration, a longer retry loop ---------------- *)
(* agents built with max_iterations = 1 and up to MaxBackoffRetries        *)
(* attempts for each gateway call                                          *)
InitBackoff ==
    /\ max_iterations = 1
    /\ max_retries \in 0..MaxBackoffRetries
    /\ verbose \in BOOLEAN
    /\ store \in Stores
    /\ max_turns = MaxTurns
    /\ Fresh

BackoffSpec == InitBackoff /\ [][Next]_vars

(* C11: the k-th sleep of a gateway call (after failed attempt k - 1) lasts *)
(* retry_delay * 2^(k-1): 2, 4 and 8 seconds after attempts 0, 1 and 2,     *)
(* and one sleep is made after every attempt before the current one.        *)
C11_BackoffSchedule ==
    /\ \A k \in 1..Len(sleeps) : sleeps[k] = RetryDelay * 2^(k - 1)
    /\ Len(sleeps) >= 3 => SubSeq(sleeps, 1, 3) = <<2, 4, 8>>
    /\ pc = "llm" => Len(sleeps) = attempt

C11_Witness ==
    /\ max_retries = 4
    /\ attempt = 3
    /\ sleeps = <<2, 4, 8>>

(* --------------------- a ConversationMemory used alone ----------------- *)
(* the locals of run() and the counters kept on them *)
runLocals ==
    <<pc, query, iterations, history, visualizations, attempt, decision, result,
      llmCalls, decideCalls, toolCalls, syncCalls, sleeps, last, handler, decided>>

(* ConversationMemory(max_turns) for a small max_turns; no run() is made *)
InitMemory ==
    /\ max_turns \in 0..MaxCapacity
    /\ max_iterations = 1
    /\ max_retries = 1
    /\ verbose = FALSE
    /\ store = [a \in {} |-> TRUE]
    /\ Fresh

(* the turns given to add_turn *)
MemTurns ==
    {[query |-> q, action |-> a,
      result |-> IF a = "bogus" THEN <<"Error:", "not_found">> ELSE <<"result">>] :
        q \in {"q1", "q2"}, a \in {"list_datasets", "bogus"}}

MemAddTurn ==
    /\ \E turn \in MemTurns :
          /\ memory' = add_turn(memory, turn)
          /\ memop' = MemAdded(memory, turn)
    /\ UNCHANGED <<config, runLocals, execDatasets, caller>>

MemGetRecentContext ==
    /\ \E n \in 0..MaxLastN : memop' = MemWindow(memory, n)
    /\ UNCHANGED <<config, runLocals, execDatasets, caller, memory>>

(* self.turns.clear() *)
MemClear ==
    /\ memory' = <<>>
    /\ memop' = MemCleared(memory)
    /\ caller' = [caller EXCEPT !.cleared = TRUE, !.dropped = memory]
    /\ UNCHANGED <<config, runLocals, execDatasets>>

NextMemory ==
    \/ MemAddTurn
    \/ MemGetRecentContext
    \/ MemClear

MemorySpec == InitMemory /\ [][NextMemory]_vars

(* C14: the deque never holds more than max_turns turns, and no window,    *)
(* however large the request, renders more than max_turns turns.           *)
C14_CapacityBound ==
    /\ Len(memory) <= max_turns
    /\ memop.op = "get_recent_context" => Len(memop.recent) <= max_turns

C14_Witness ==
    /\ memop.op = "get_recent_context"
    /\ max_turns = 2
    /\ memop.last_n = 3
    /\ Len(memop.recent) = 2
    /\ caller.cleared

(* C15 as written: add_turn on a memory holding max_turns turns removes    *)
(* the oldest turn and appends the new one last.                           *)
C15_Original ==
    (memop.op = "add_turn" /\ Len(memop.before) = max_turns)
    => memory = SubSeq(memop.before, 2, Len(memop.before)) \o <<memop.turn>>

(* C15 amended: for max_turns >= 1, add_turn on a memory holding max_turns *)
(* turns removes exactly the oldest turn and appends the new one last, the *)
(* other turns keeping their order.                                        *)
C15_FifoEviction ==
    (memop.op = "add_turn" /\ max_turns >= 1 /\ Len(memop.before) = max_turns)
    => /\ Len(memory) = max_turns
       /\ memory[max_turns] = memop.turn
       /\ \A i \in 1..(max_turns - 1) : memory[i] = memop.before[i + 1]

C15_Witness ==
    /\ memop.op = "add_turn"
    /\ max_turns = 2
    /\ Len(memop.before) = 2
    /\ memop.before[1] # memop.before[2]
    /\ memop.turn # memop.before[2]
    /\ memory = <<memop.before[2], memop.turn>>

(* C16: get_recent_context(n) renders at most min(n, len(turns)) turns,    *)
(* none for n = 0.                                                         *)
C16_WindowAtMost ==
    memop.op = "get_recent_context"
    => Len(memop.recent) <= Min(memop.last_n, Len(memop.before))

(* C17: for n >= 1 and a non-empty memory, get_recent_context(n) renders   *)
(* exactly the min(n, len(turns)) turns appended last, oldest first.       *)
C17_WindowMostRecent ==
    (memop.op = "get_recent_context" /\ memop.last_n >= 1 /\ memop.before # <<>>)
    => LET k == Min(memop.last_n, Len(memop.before))
           base == Len(memop.before) - k
       IN  /\ ~memop.sentinel
           /\ Len(memop.recent) = k
           /\ \A i \in 1..k :
                 /\ memop.recent[i].number = i
                 /\ memop.recent[i].action = memop.before[base + i].action
                 /\ memop.recent[i].result = memop.before[base + i].result

C17_Witness ==
    /\ memop.op = "get_recent_context"
    /\ memop.last_n = 1
    /\ Len(memop.before) = 2
    /\ memop.before[1].action = "list_datasets"
    /\ memop.before[2].action = "bogus"
    /\ Len(memop.recent) = 1

(* C18: on a memory without turns, fresh or cleared, get_recent_context(n) *)
(* for n > 0 returns the no-history text and no rendered turn; clear()     *)
(* leaves no turn.                                                         *)
C18_EmptySentinel ==
    /\ (memop.op = "get_recent_context" /\ memop.before = <<>> /\ memop.last_n > 0)
       => memop.sentinel /\ memop.recent = <<>>
    /\ memop.op = "clear" => memory = <<>>

C18_Witness ==
    /\ memop.op = "get_recent_context"
    /\ memop.last_n = 2
    /\ memop.sentinel
    /\ max_turns = 2
    /\ caller.cleared
    /\ Len(caller.dropped) = 2

(* ------------------------ several run() on one agent ------------------- *)
(* run() has returned or raised and the caller goes on; the locals of      *)
(* run() are gone                                                          *)
RunReturns ==
    /\ pc \in {"returned", "crashed"}
    /\ caller.runs + 1 < MaxRuns
    /\ caller' = [caller EXCEPT !.runs = @ + 1, !.carried = memory,
                                !.cleared = FALSE, !.dropped = <<>>]
    /\ pc' = "idle"
    /\ query' = ""
    /\ iterations' = 0
    /\ history' = <<>>
    /\ visualizations' = <<>>
    /\ attempt' = 0
    /\ decision' = NoDecision
    /\ result' = NoResult
    /\ llmCalls' = 0
    /\ decideCalls' = 0
    /\ toolCalls' = 0
    /\ syncCalls' = 0
    /\ sleeps' = <<>>
    /\ last' = NoLast
    /\ handler' = "none"
    /\ decided' = <<>>
    /\ UNCHANGED <<config, memory, memop, execDatasets>>

(* clear_memory() called between two run() *)
ClearMemory ==
    /\ pc = "idle"
    /\ memory' = <<>>
    /\ memop' = MemCleared(memory)
    /\ caller' = [caller EXCEPT !.cleared = TRUE, !.carried = <<>>]
    /\ UNCHANGED <<config, runLocals, execDatasets>>

NextRuns ==
    \/ Next
    \/ RunReturns
    \/ ClearMemory

(* agents built with max_iterations = 1, used for several queries *)
InitRuns ==
    /\ max_iterations = 1
    /\ max_retries \in 0..MaxRetries
    /\ verbose \in BOOLEAN
    /\ store \in Stores
    /\ max_turns = MaxTurns
    /\ Fresh

RunsSpec == InitRuns /\ [][NextRuns]_vars

(* the turns the caller left in the memory before the current run():     *)
(* those of the earlier run(), none after clear_memory()                   *)
CarriedIn == caller.carried

(* C19: run() never clears the memory: during a run() the memory is what   *)
(* the previous run() left (nothing after clear_memory()) followed by the  *)
(* turns of this run(), and the first prompt of the run() renders the last *)
(* three turns the previous run() left, or the no-history text after       *)
(* clear_memory() or when nothing was left.                                *)
C19_MemoryAcrossRuns ==
    /\ pc \notin {"idle"}
       => /\ Len(memory) = Len(CarriedIn) + Len(history)
          /\ \A i \in 1..Len(CarriedIn) : memory[i] = CarriedIn[i]
          /\ \A i \in 1..Len(history) :
                memory[Len(CarriedIn) + i].action = history[i].action
    /\ (pc = "llm" /\ iterations = 1)
       => LET k == Min(PromptWindow, Len(CarriedIn))
              base == Len(CarriedIn) - k
          IN  /\ memop.op = "get_recent_context"
              /\ memop.last_n = PromptWindow
              /\ memop.sentinel = (CarriedIn = <<>>)
              /\ caller.cleared => memop.sentinel
              /\ Len(memop.recent) = k
              /\ \A i \in 1..k :
                    /\ memop.recent[i].action = CarriedIn[base + i].action
                    /\ memop.recent[i].result = CarriedIn[base + i].result

C19_Witness ==
    /\ caller.runs = 2
    /\ ~caller.cleared
    /\ pc = "llm"
    /\ iterations = 1
    /\ Len(caller.carried) = 2
    /\ caller.carried[1].action = "visualize"
    /\ Len(memop.recent) = 2
    /\ memop.recent[1].action = "visualize"

(* ---------------------- _execute_tool called directly ------------------ *)
(* an agent between two run(), its memory empty or holding one turn of an  *)
(* earlier run()                                                           *)
InitDispatch ==
    /\ max_iterations = 1
    /\ max_retries = 1
    /\ verbose = FALSE
    /\ store \in Stores
    /\ max_turns = MaxTurns
    /\ memory \in {<<>>,
                   <<[query |-> "q1", action |-> "bogus",
                      result |-> <<"Error:", "not_found">>]>>}
    /\ execDatasets = [a \in {} |-> TRUE]
    /\ pc = "idle"
    /\ query = ""
    /\ iterations = 0
    /\ history = <<>>
    /\ visualizations = <<>>
    /\ attempt = 0
    /\ decision = NoDecision
    /\ result = NoResult
    /\ llmCalls = 0
    /\ decideCalls = 0
    /\ toolCalls = 0
    /\ syncCalls = 0
    /\ sleeps = <<>>
    /\ last = NoLast
    /\ handler = "none"
    /\ decided = <<>>
    /\ memop = NoMemOp
    /\ caller = [NoCaller EXCEPT !.runs = Len(memory), !.carried = memory]

(* the tool names and parameters given to the direct calls *)
DirectNames == {"bogus", "DONE", "list_datasets", "visualize"}

DirectParams ==
    {EmptyMap,
     [t |-> "map", answer |-> Absent, args |-> "fit"],
     [t |-> "map", answer |-> Absent, args |-> "misfit"]}

(* _execute_tool answering an unknown name differently once it was called *)
ExecuteTool_Counting ==
    /\ pc = "idle"
    /\ Len(caller.results) < MaxDispatches
    /\ \E tool_name \in DirectNames, p \in DirectParams :
          \E outcome \in Outcomes(tool_name, p) :
             caller' = [caller EXCEPT !.results =
                           Append(@, [tool_name |-> tool_name, parameters |-> p,
                                      result |-> IF tool_name \notin tools /\ toolCalls > 0
                                                 THEN ToolResult("error", "unavailable")
                                                 ELSE execute_tool(tool_name, p, outcome),
                                      memory |-> memory, store |-> store,
                                      datasets |-> execDatasets])]
    /\ toolCalls' = toolCalls + 1
    /\ UNCHANGED <<config, memory, memop, execDatasets, syncCalls, pc, query, iterations,
                   history, visualizations, attempt, decision, result, llmCalls,
                   decideCalls, sleeps, last, handler, decided>>

(* self._execute_tool(tool_name, parameters) called by the caller of the   *)
(* agent; the call and the agent's state before it are written down        *)
ExecuteTool ==
    /\ pc = "idle"
    /\ Len(caller.results) < MaxDispatches
    /\ \E tool_name \in DirectNames, p \in DirectParams :
          \E outcome \in Outcomes(tool_name, p) :
             caller' = [caller EXCEPT !.results =
                           Append(@, [tool_name |-> tool_name, parameters |-> p,
                                      result |-> execute_tool(tool_name, p, outcome),
                                      memory |-> memory, store |-> store,
                                      datasets |-> execDatasets])]
    /\ toolCalls' = toolCalls + 1
    /\ UNCHANGED <<config, memory, memop, execDatasets, syncCalls, pc, query, iterations,
                   history, visualizations, attempt, decision, result, llmCalls,
                   decideCalls, sleeps, last, handler, decided>>

DispatchSpec == InitDispatch /\ [][ExecuteTool]_vars

AllDispatched ==
    /\ iterations >= 1
    /\ toolCalls = iterations
    /\ Len(decided) = iterations
    /\ \A i \in 1..iterations : decided[i] # Unhashable

(* C21: an iteration of run() that dispatches a tool appends exactly one   *)
(* Turn to Memory and exactly one entry to the turn history, for a success *)
(* result, for an error result and for an action name that is not a        *)
(* registered tool: after i dispatching iterations the history has i       *)
(* entries, the i-th made by iteration i, and the Memory is the Memory of  *)
(* before the iteration with one Turn for that action appended.            *)
C21_DispatchAppendsOnce ==
    AllDispatched
    => /\ pc \in {"loop", "returned"}
       /\ Len(history) = iterations
       /\ Len(memory) = iterations
       /\ history[iterations].iteration = iterations
       /\ history[iterations].action = decided[iterations]
       /\ memop.op = "add_turn"
       /\ Len(memop.before) = iterations - 1
       /\ memory = Append(memop.before, memop.turn)
       /\ memop.turn.action = decided[iterations]
       /\ handler \in {"success", "error", "raise", "unbound", "not_called"}

C21_Witness ==
    /\ AllDispatched
    /\ iterations = 2
    /\ decided = <<"visualize", "bogus">>
    /\ history[1].status = "success"
    /\ history[2].kind = "not_found"
    /\ Len(memory) = 2
    /\ pc = "loop"

(* ------------------------ _summarize_result ---------------------------- *)
(* the numbers of _summarize_result: the slice result_str[:500], the       *)
(* characters of "..." and of the prefix "Error: "                         *)
SummaryBudget == 500
EllipsisLen == 3
ErrorPrefixLen == 7

(* the longest tool text and the number of summaries stored *)
MaxTextLen == 1000
MaxSummaries == 2

(* lengths of the text a tool result carries: str(result["result"]) of a   *)
(* success result, error_message of an error result                        *)
TextLengths ==
    {0, 10, SummaryBudget - 1, SummaryBudget, SummaryBudget + 1, MaxTextLen}

(* the number of characters of the string _summarize_result returns for a  *)
(* result of the given status whose text has n characters                  *)
summary_length(status, n) ==
    IF status = "error"
    THEN ErrorPrefixLen + n
    ELSE IF n > SummaryBudget THEN SummaryBudget + EllipsisLen ELSE n

(* a freshly built agent *)
InitSummary ==
    /\ max_iterations = 1
    /\ max_retries = 1
    /\ verbose = FALSE
    /\ store = [a \in {} |-> TRUE]
    /\ max_turns = MaxTurns
    /\ Fresh

(* step 8 of run() for a result _execute_tool returned: the summary of the *)
(* result is stored in a Turn; chars is the length of the stored summary   *)
StoreSummary ==
    /\ Len(memory) < MaxSummaries
    /\ \E status \in {"success", "error"}, n \in TextLengths :
          LET res == ToolResult(status, IF status = "error" THEN "tool_error"
                                                           ELSE "none")
              turn == [query |-> "q1", action |-> "list_datasets",
                       result |-> summarize_result(res),
                       chars |-> summary_length(status, n)]
          IN  /\ memory' = add_turn(memory, turn)
              /\ memop' = MemAdded(memory, turn)
    /\ UNCHANGED <<config, runLocals, execDatasets, caller>>

SummarySpec == InitSummary /\ [][StoreSummary]_vars

(* C22: every result summary stored in a Memory Turn has at most the fixed *)
(* budget of 500 characters plus the 3 of the "..." marker, for success    *)
(* and for error results, whatever the length of the tool's text.          *)
C22_SummaryBounded ==
    \A i \in 1..Len(memory) : memory[i].chars <= SummaryBudget + EllipsisLen

(* ------------------- the executor's dataset mapping -------------------- *)
(* the mapping SafeCodeExecutor({}) starts with *)
NoDatasets == [a \in {} |-> TRUE]

(* an iteration of run() is over: back at the while test, or run() ended *)
IterationOver == iterations >= 1 /\ pc \in {"loop", "returned", "crashed"}

HandlerRuns ==
    /\ toolCalls' = toolCalls + 1
    /\ handler' \in {"success", "error", "raise"}

(* C24: whenever a tool handler executes during run(), the executor's      *)
(* dataset mapping holds exactly the aliases of the dataset store that the *)
(* prompt of that iteration showed, the first iteration of the first run() *)
(* of an agent built over a non-empty store included.                      *)
C24_ExecutorSeesCatalog ==
    [][HandlerRuns => DOMAIN execDatasets = DOMAIN store]_vars

(* ------------------- iterations that end the run ----------------------- *)
(* run() returned from inside an iteration: steps 1, 2 or 4 *)
EndedInIteration ==
    /\ pc = "returned"
    /\ result.kind \in {"success", "no_answer", "llm_error", "prompt_error"}

(* C25: an iteration that ends the run (DONE with or without an answer, a  *)
(* gateway failure, a prompt-build failure) leaves Memory as it was and    *)
(* adds no history entry: Memory and history hold what the i-1 iterations  *)
(* before it appended, and a run that succeeds at iteration i returns a    *)
(* turn history of exactly i-1 entries.                                    *)
C25_EndingIterationWritesNothing ==
    EndedInIteration
    => /\ result.iterations = iterations
       /\ Len(history) = iterations - 1
       /\ Len(memory) = iterations - 1
       /\ toolCalls = iterations - 1
       /\ \A i \in 1..Len(history) : history[i].iteration = i
       /\ memop.op = "get_recent_context" => memory = memop.before
       /\ memop.op = "add_turn" =>
             memory = Append(memop.before, memop.turn)
             /\ history[Len(history)].action = memop.turn.action
       /\ result.kind = "success" =>
             /\ result.hasHistory
             /\ result.conversation_history = history
             /\ Len(result.conversation_history) = result.iterations - 1

C25_Witness ==
    /\ EndedInIteration
    /\ result.kind = "success"
    /\ result.iterations = 2
    /\ Len(result.conversation_history) = 1
    /\ Len(memory) = 1
    /\ memop.op = "get_recent_context"

(* ------------------ sleeps of a rate-limited gateway call -------------- *)
(* the gateway call gave up on rate-limit failures *)
RateLimitGaveUp == pc = "returned" /\ result.cause = "rate_limit_exceeded"

(* C26: a gateway call with max_retries >= 1 whose every attempt is        *)
(* rate-limited sleeps exactly max_retries - 1 times, once after each      *)
(* attempt except the last: while it retries it has slept once per failed  *)
(* attempt, and when it reports the failure it has made max_retries calls  *)
(* and max_retries - 1 sleeps, none after the last call.                   *)
C26_NoSleepAfterLastAttempt ==
    /\ (pc = "llm" /\ iterations = 1) => Len(sleeps) = decideCalls
    /\ RateLimitGaveUp
       => /\ max_retries >= 1
          /\ decideCalls = max_retries
          /\ Len(sleeps) = max_retries - 1
          /\ attempt = max_retries - 1
          /\ \A k \in 1..Len(sleeps) : sleeps[k] = wait_time(k - 1)

C26_Witness ==
    /\ RateLimitGaveUp
    /\ max_retries = 4
    /\ decideCalls = 4
    /\ Len(sleeps) = 3

====
